---- MODULE Spec2Model ----
(***************************************************************************)
(* Model of classipy/classiPY.py: the marking registry (Markings), the     *)
(* overlay renderer (draw_overlay), the composer (add_border,              *)
(* save_image_with_overlay), the directory walker (add_overlay_to_dir)     *)
(* and the command-line entry point (main).                                *)
(*                                                                         *)
(* File names and classification codes are sequences of one-character      *)
(* strings, so that suffix extraction, lower-casing and the output-name    *)
(* concatenation are computed as pathlib and the f-string compute them.    *)
(* An image is a record of its size and its pixels, run-length encoded:    *)
(* rows is a sequence of [n, c] runs of n equal rows c, and a row is a     *)
(* sequence of [n, c] runs of n pixels of RGB triple c.  The pixels of the *)
(* bounding box of a drawn label are marked TextPx (glyph or background).  *)
(***************************************************************************)
EXTENDS Integers, Sequences, FiniteSets, TLC

\* ---------------------------------------------------------------- bounds
MaxFiles == 2      \* entries initially in the input directory
MaxRuns  == 2      \* consecutive runs with the same arguments
MaxEnum  == 4      \* a run is only started on at most this many image files

\* ------------------------------------------------------ program constants
BANNER_PERCENT_OF_HEIGHT == 5
BAR_HEIGHT == 40
BORDER_THICKNESS == 5

None == <<>>
Some(x) == <<x>>

CUI == <<"C", "U", "I">>
S_  == <<"S">>
U_  == <<"U">>
MARKS == <<CUI, S_, U_>>
EXTS == { <<".", "j", "p", "g">>, <<".", "p", "n", "g">>,
          <<".", "j", "p", "e", "g">>, <<".", "b", "m", "p">> }

Black == <<0, 0, 0>>
TextPx == <<"text">>
Gray == <<128, 128, 128>>

Min(a, b) == IF a < b THEN a ELSE b
Max(a, b) == IF a > b THEN a ELSE b

\* ------------------------------------------------------------ str methods
UpperChars == <<"A","B","C","D","E","F","G","H","I","J","K","L","M",
                "N","O","P","Q","R","S","T","U","V","W","X","Y","Z">>
LowerChars == <<"a","b","c","d","e","f","g","h","i","j","k","l","m",
                "n","o","p","q","r","s","t","u","v","w","x","y","z">>

LowerChar(ch) ==
    IF \E i \in 1..26 : UpperChars[i] = ch
    THEN LowerChars[CHOOSE i \in 1..26 : UpperChars[i] = ch]
    ELSE ch

\* str.lower()
Lower(s) == [i \in 1..Len(s) |-> LowerChar(s[i])]

\* str.rfind("."), as a 1-based index, 0 when there is no dot
RFindDot(s) ==
    IF \E i \in 1..Len(s) : s[i] = "."
    THEN CHOOSE i \in 1..Len(s) : s[i] = "." /\ \A j \in (i+1)..Len(s) : s[j] # "."
    ELSE 0

\* PurePath.suffix: the last dot-component, empty for a leading or trailing dot
Suffix(name) ==
    LET i == RFindDot(name)
    IN  IF 1 < i /\ i < Len(name) THEN SubSeq(name, i, Len(name)) ELSE <<>>

\* -------------------------------------------------------------- Markings
get_symbol(classification) == classification

get_long_name(classification) ==
    IF classification = CUI THEN Some("CUI")
    ELSE IF classification = S_ THEN Some("SECRET")
    ELSE IF classification = U_ THEN Some("UNCLASSIFIED")
    ELSE None

\* get_color with the colours of S and U exchanged
get_color_swapped(classification) ==
    IF classification = CUI THEN <<80, 43, 133>>
    ELSE IF classification = S_ THEN <<0, 122, 51>>
    ELSE IF classification = U_ THEN <<200, 16, 46>>
    ELSE None

get_color(classification) ==
    IF classification = CUI THEN <<80, 43, 133>>
    ELSE IF classification = S_ THEN <<200, 16, 46>>
    ELSE IF classification = U_ THEN <<0, 122, 51>>
    ELSE None

\* ------------------------------------------------------------ PIL images
Run(n, c) == [n |-> n, c |-> c]

BlankRow(w, c) == IF w > 0 THEN <<Run(w, c)>> ELSE <<>>

\* Image.new("RGB", (w, h), c)
ImageNew(w, h, c) ==
    [kind |-> "image", width |-> w, height |-> h,
     rows |-> IF h > 0 THEN <<Run(h, BlankRow(w, c))>> ELSE <<>>]

RECURSIVE Take(_, _)
\* the first n items of a run-length sequence
Take(runs, n) ==
    IF n <= 0 \/ runs = <<>> THEN <<>>
    ELSE IF Head(runs).n <= n
         THEN <<Head(runs)>> \o Take(Tail(runs), n - Head(runs).n)
         ELSE <<Run(n, Head(runs).c)>>

RECURSIVE Drop(_, _)
\* a run-length sequence without its first n items
Drop(runs, n) ==
    IF n <= 0 \/ runs = <<>> THEN runs
    ELSE IF Head(runs).n <= n
         THEN Drop(Tail(runs), n - Head(runs).n)
         ELSE <<Run(Head(runs).n - n, Head(runs).c)>> \o Tail(runs)

\* pixels x0..x1 (0-based, inclusive, clipped to the row) set to c
FillRow(row, width, x0, x1, c) ==
    LET lo == Max(x0, 0)
        hi == Min(x1, width - 1)
    IN  IF lo > hi THEN row
        ELSE Take(row, lo) \o <<Run(hi - lo + 1, c)>> \o Drop(row, hi + 1)

\* ImageDraw.rectangle([x0, y0, x1, y1], fill): both corners inclusive
rectangle(img, x0, y0, x1, y1, fill) ==
    LET lo == Max(y0, 0)
        hi == Min(y1, img.height - 1)
        mid == Take(Drop(img.rows, lo), hi - lo + 1)
    IN  IF lo > hi THEN img
        ELSE [img EXCEPT !.rows =
                 Take(img.rows, lo)
                 \o [i \in 1..Len(mid) |->
                        Run(mid[i].n, FillRow(mid[i].c, img.width, x0, x1, fill))]
                 \o Drop(img.rows, hi + 1)]

\* ImageDraw.text(pos, label): the pixels of the label's bounding box (as
\* textbbox reports it for the origin, right/bottom exclusive) become TextPx
text(img, pos, bbox) ==
    rectangle(img, pos[1] + bbox[1], pos[2] + bbox[2],
              pos[1] + bbox[3] - 1, pos[2] + bbox[4] - 1, TextPx)

RECURSIVE PasteRows(_, _, _, _)
\* canvas rows with the source rows written over columns left..left+width-1
PasteRows(canvas, src, left, width) ==
    IF canvas = <<>> \/ src = <<>> THEN <<>>
    ELSE LET k == Min(Head(canvas).n, Head(src).n)
         IN  <<Run(k, Take(Head(canvas).c, left) \o Head(src).c
                      \o Drop(Head(canvas).c, left + width))>>
             \o PasteRows(Drop(canvas, k), Drop(src, k), left, width)

\* Image.paste(src, (left, top)), src lying inside the canvas
paste(img, src, left, top) ==
    [img EXCEPT !.rows =
        Take(img.rows, top)
        \o PasteRows(Take(Drop(img.rows, top), src.height), src.rows, left, src.width)
        \o Drop(img.rows, top + src.height)]

RECURSIVE At(_, _)
\* item x (0-based) of a run-length sequence, None outside it
At(runs, x) ==
    IF runs = <<>> \/ x < 0 THEN None
    ELSE IF x < Head(runs).n THEN Head(runs).c
    ELSE At(Tail(runs), x - Head(runs).n)

\* Image.getpixel((x, y)), 0-based
getpixel(img, x, y) == At(At(img.rows, y), x)

\* ---------------------------------------------------------- draw_overlay
\* bbox is what draw.textbbox((0, 0), label) returns for the font in use.
\* With an unknown classification the label is None and textbbox raises.
draw_overlay(canvas, width, height, classification, bbox) ==
    LET banner_height == BAR_HEIGHT
        fill  == get_color(classification)
        label == get_long_name(classification)
        text_horizontal == width - ((bbox[3] - bbox[1]) \div 2)
        text_vertical   == banner_height - ((bbox[4] + bbox[2]) \div 2)
        text_position_top    == <<text_horizontal, text_vertical>>
        text_position_bottom == <<text_horizontal, height - banner_height + text_vertical>>
        top    == rectangle(canvas, 0, 0, width, banner_height, fill)
        bottom == rectangle(top, 0, height - banner_height, width, height, fill)
    IN  [raised |-> (label = None),
         img |-> IF label = None THEN canvas
                 ELSE text(text(bottom, text_position_top, bbox),
                           text_position_bottom, bbox),
         fill |-> fill, label |-> label,
         banner_height |-> banner_height,
         band_top |-> <<0, banner_height>>,
         band_bottom |-> <<height - banner_height, height>>,
         text_position_top |-> text_position_top,
         text_position_bottom |-> text_position_bottom]

\* ------------------------------------------------------------ add_border
add_border(img, border_thickness) ==
    paste(ImageNew(img.width + 2 * border_thickness,
                   img.height + 2 * border_thickness, Black),
          img, border_thickness, border_thickness)

\* ------------------------------------------------------------ file system
\* fsys maps each existing directory to a function from entry name to entry
Path(dir, name) == [dir |-> dir, name |-> name]

IsEntry(fsys, p) == p.dir \in DOMAIN fsys /\ p.name \in DOMAIN fsys[p.dir]

WriteFile(fsys, p, content) ==
    [d \in DOMAIN fsys |->
        IF d = p.dir
        THEN [n \in DOMAIN fsys[d] \cup {p.name} |->
                 IF n = p.name THEN content ELSE fsys[d][n]]
        ELSE fsys[d]]

NoDraw ==
    [drawn |-> FALSE, classification |-> None, fill |-> None, label |-> None,
     width |-> 0, height |-> 0, banner_height |-> 0, new_height |-> 0,
     paste_top |-> 0, border_thickness |-> 0,
     draw_banner_height |-> 0, band_top |-> <<0, 0>>, band_bottom |-> <<0, 0>>,
     bbox |-> <<0, 0, 0, 0>>,
     text_position_top |-> <<0, 0>>, text_position_bottom |-> <<0, 0>>]

NoCall == [image_file |-> <<>>, new_path |-> [dir |-> "", name |-> <<>>],
           outcome |-> "none"]

\* ------------------------------------------------ save_image_with_overlay
\* The body of the try block: the file system it leaves, the exception it
\* ends with ("none", "FileNotFoundError" or another "Exception") and the
\* geometry it used.
TryBlock(fsys, image_path, new_path, classification, border_thickness, bbox) ==
    IF ~IsEntry(fsys, image_path)
    THEN [fs |-> fsys, exc |-> "FileNotFoundError", geom |-> NoDraw]
    ELSE IF fsys[image_path.dir][image_path.name].kind # "image"
    THEN [fs |-> fsys, exc |-> "Exception", geom |-> NoDraw]
    ELSE
    LET img == fsys[image_path.dir][image_path.name]
        width  == img.width
        height == img.height
        banner_height == (height * BANNER_PERCENT_OF_HEIGHT) \div 100
        new_height == height + 2 * banner_height
        new_img == ImageNew(width, new_height, Black)
        d == draw_overlay(new_img, width, new_height, classification, bbox)
        pasted == paste(d.img, img, 0, banner_height)
        bordered_img == add_border(pasted, border_thickness)
        geom == [drawn |-> TRUE, classification |-> classification,
                 fill |-> d.fill, label |-> d.label,
                 width |-> width, height |-> height,
                 banner_height |-> banner_height, new_height |-> new_height,
                 paste_top |-> banner_height,
                 border_thickness |-> border_thickness,
                 draw_banner_height |-> d.banner_height,
                 band_top |-> d.band_top, band_bottom |-> d.band_bottom,
                 bbox |-> bbox,
                 text_position_top |-> d.text_position_top,
                 text_position_bottom |-> d.text_position_bottom]
    IN  IF d.raised
        THEN [fs |-> fsys, exc |-> "Exception", geom |-> geom]
        ELSE IF new_path.dir \notin DOMAIN fsys
        THEN [fs |-> fsys, exc |-> "FileNotFoundError", geom |-> geom]
        ELSE IF IsEntry(fsys, new_path) /\ fsys[new_path.dir][new_path.name].kind = "dir"
        THEN [fs |-> fsys, exc |-> "Exception", geom |-> geom]
        ELSE [fs |-> WriteFile(fsys, new_path, bordered_img),
              exc |-> "none", geom |-> geom]

\* the except clauses without the catch-all "except Exception"
ExceptClauses_only_not_found(t) ==
    [fs |-> t.fs, geom |-> t.geom,
     outcome |-> IF t.exc = "none" THEN "saved"
                 ELSE IF t.exc = "FileNotFoundError" THEN "not_found"
                 ELSE "error",
     raised |-> (t.exc = "Exception")]

\* The except clauses: both handlers log and swallow the exception.
ExceptClauses(t) ==
    [fs |-> t.fs, geom |-> t.geom,
     outcome |-> IF t.exc = "none" THEN "saved"
                 ELSE IF t.exc = "FileNotFoundError" THEN "not_found"
                 ELSE "error",
     raised |-> FALSE]

save_image_with_overlay(fsys, image_path, new_path, classification, border_thickness, bbox) ==
    ExceptClauses(TryBlock(fsys, image_path, new_path, classification,
                           border_thickness, bbox))

\* ------------------------------------------------------------ environment
Codes == {CUI, S_, U_, <<"c", "u", "i">>, <<"X">>}

\* bounding boxes draw.textbbox((0, 0), label) may report, by font
BBoxes == { <<0, 0, 18, 11>>, <<0, 3, 72, 10>> }

SourceImage(w, h) ==
    [kind |-> "image", width |-> w, height |-> h,
     rows |-> <<Run(h, BlankRow(w, Gray))>>]
Corrupt   == [kind |-> "corrupt"]
Directory == [kind |-> "dir"]

a_jpg   == <<"a", ".", "j", "p", "g">>
b_PNG   == <<"b", ".", "P", "N", "G">>
n_txt   == <<"n", ".", "t", "x", "t">>
S_a_jpg == <<"(", "S", ")", " ", "a", ".", "j", "p", "g">>
Names == {a_jpg, b_PNG, n_txt, S_a_jpg}

InitialContents(name) ==
    IF name = a_jpg THEN {SourceImage(300, 200), SourceImage(30, 840), Corrupt}
    ELSE IF name = b_PNG THEN {SourceImage(64, 800)}
    ELSE IF name = S_a_jpg THEN {SourceImage(8, 19), Directory}
    ELSE {Corrupt}

InitialDirs ==
    UNION { { f \in [ns -> UNION {InitialContents(n) : n \in ns}] :
                \A n \in ns : f[n] \in InitialContents(n) } :
            ns \in {x \in SUBSET Names : Cardinality(x) <= MaxFiles} }

EmptyDir == [n \in {} |-> Corrupt]

VARIABLES
    fs,                 \* the file system: directory -> (entry name -> entry)
    entry,              \* "cli": main is run; "api": add_overlay_to_dir is called
    arg_classification, \* the classification argument
    arg_output,         \* the --output option, None when omitted
    font_bbox,          \* what draw.textbbox((0, 0), label) reports with the default font
    directory_path, output_path, classification,   \* add_overlay_to_dir's parameters
    pc,                 \* "idle", "loop", "done", "raised", "usage"
    image_files,        \* the list built by the comprehension (order is the listing's)
    pending,            \* the files the for loop has not reached yet
    calls,              \* (image_file name, new_path) pairs passed to save_image_with_overlay
    ncalls,             \* number of calls of save_image_with_overlay in this run
    written,            \* paths saved in this run
    saved, failed,      \* names logged by logging.info / logging.error in this run
    last,               \* geometry of the latest save_image_with_overlay call
    run,                \* runs started
    before,             \* the file system when the current run enumerated the directory
    after1              \* the output directory when the first run returned

vars == <<fs, entry, arg_classification, arg_output, font_bbox, directory_path, output_path,
          classification, pc, image_files, pending, calls, ncalls, written,
          saved, failed, last, run, before, after1>>

Init ==
    /\ entry \in {"cli", "api"}
    /\ arg_classification \in Codes
    /\ arg_output \in {None, Some("output")}
    /\ font_bbox \in BBoxes
    /\ \E d \in InitialDirs, outExists \in BOOLEAN :
          fs = IF arg_output # None /\ outExists
               THEN [x \in {"images", "output"} |-> IF x = "images" THEN d ELSE EmptyDir]
               ELSE [x \in {"images"} |-> d]
    /\ directory_path = "images"
    /\ output_path = "images"
    /\ classification = arg_classification
    /\ pc = "idle"
    /\ image_files = {}
    /\ pending = {}
    /\ calls = {}
    /\ ncalls = 0
    /\ written = {}
    /\ saved = {}
    /\ failed = {}
    /\ last = NoDraw @@ NoCall
    /\ run = 0
    /\ before = fs
    /\ after1 = EmptyDir

\* the extension test without .lower()
IsImageFile_case_sensitive(name) == Suffix(name) \in EXTS

\* x.suffix.lower() in EXTS
IsImageFile(name) == Lower(Suffix(name)) \in EXTS

\* the output name without the space after the closing parenthesis
OverlayedName_no_space(c, name) == <<"(">> \o get_symbol(c) \o <<")">> \o name

\* f"({markings.get_symbol(classification)}) {image_file.name}"
OverlayedName(c, name) == <<"(">> \o get_symbol(c) \o <<")", " ">> \o name

\* output_path.mkdir(parents=True, exist_ok=True) when the path does not exist
Mkdir(fsys, dir) ==
    IF dir \in DOMAIN fsys THEN fsys
    ELSE [d \in DOMAIN fsys \cup {dir} |-> IF d = dir THEN EmptyDir ELSE fsys[d]]

\* add_overlay_to_dir up to the for loop
Enumerate(dir, out, c) ==
    LET fs1 == Mkdir(fs, out)
        files == {x \in DOMAIN fs1[dir] : IsImageFile(x)}
    IN  /\ Cardinality(files) <= MaxEnum
        /\ fs' = fs1
        /\ directory_path' = dir
        /\ output_path' = out
        /\ classification' = c
        /\ image_files' = files
        /\ pending' = files
        /\ calls' = {}
        /\ ncalls' = 0
        /\ written' = {}
        /\ saved' = {}
        /\ failed' = {}
        /\ before' = fs1
        /\ run' = run + 1
        /\ pc' = "loop"
        /\ UNCHANGED <<entry, arg_classification, arg_output, font_bbox, last, after1>>

\* click.Choice(MARKS, case_sensitive=False): the matching member of MARKS
Choice(value) ==
    IF \E i \in 1..Len(MARKS) : Lower(MARKS[i]) = Lower(value)
    THEN Some(MARKS[CHOOSE i \in 1..Len(MARKS) : Lower(MARKS[i]) = Lower(value)])
    ELSE None

\* output = images if output is None else Path(output).resolve()
ResolveOutput(images, output) == IF output = None THEN images ELSE output[1]

main ==
    /\ entry = "cli"
    /\ pc \in {"idle", "done"}
    /\ run < MaxRuns
    /\ Choice(arg_classification) # None
    /\ Enumerate("images", ResolveOutput("images", arg_output),
                 Choice(arg_classification)[1])

UsageError ==
    /\ entry = "cli"
    /\ pc = "idle"
    /\ Choice(arg_classification) = None
    /\ pc' = "usage"
    /\ UNCHANGED <<fs, entry, arg_classification, arg_output, font_bbox, directory_path,
                   output_path, classification, image_files, pending, calls,
                   ncalls, written, saved, failed, last, run, before, after1>>

add_overlay_to_dir ==
    /\ entry = "api"
    /\ pc \in {"idle", "done"}
    /\ run < MaxRuns
    /\ Enumerate("images", ResolveOutput("images", arg_output), arg_classification)

\* one iteration of the for loop
ProcessFile ==
    /\ pc = "loop"
    /\ \E image_file \in pending :
          LET overlayed_image ==
                  Path(output_path, OverlayedName(classification, image_file))
              r == save_image_with_overlay(fs, Path(directory_path, image_file),
                       overlayed_image, classification, BORDER_THICKNESS, font_bbox)
          IN  /\ fs' = r.fs
              /\ pending' = pending \ {image_file}
              /\ calls' = calls \cup {<<image_file, overlayed_image>>}
              /\ ncalls' = ncalls + 1
              /\ written' = IF r.outcome = "saved"
                            THEN written \cup {overlayed_image} ELSE written
              /\ saved' = IF r.outcome = "saved" THEN saved \cup {image_file} ELSE saved
              /\ failed' = IF r.outcome # "saved" THEN failed \cup {image_file} ELSE failed
              /\ last' = r.geom @@
                         [image_file |-> image_file, new_path |-> overlayed_image,
                          outcome |-> r.outcome]
              /\ pc' = IF r.raised THEN "raised" ELSE "loop"
    /\ UNCHANGED <<entry, arg_classification, arg_output, font_bbox, directory_path,
                   output_path, classification, image_files, run, before, after1>>

\* the for loop is exhausted and add_overlay_to_dir returns
Return ==
    /\ pc = "loop"
    /\ pending = {}
    /\ pc' = "done"
    /\ after1' = IF run = 1 THEN fs[output_path] ELSE after1
    /\ UNCHANGED <<fs, entry, arg_classification, arg_output, font_bbox, directory_path,
                   output_path, classification, image_files, pending, calls,
                   ncalls, written, saved, failed, last, run, before>>

Next == main \/ UsageError \/ add_overlay_to_dir \/ ProcessFile \/ Return

Spec == Init /\ [][Next]_vars
\* ================================================================ claims
Known == {CUI, S_, U_}

\* the name "(" + code + ") " + name, written out
Prefixed(code, name) == <<"(">> \o code \o <<")", " ">> \o name

\* the name ends with one of the allow-listed extensions, case-insensitively
HasAllowedExt(name) ==
    \E e \in EXTS :
        /\ Len(name) > Len(e)
        /\ Lower(SubSeq(name, Len(name) - Len(e) + 1, Len(name))) = e

\* the run that just returned was the first one and found the output directory empty
FirstRunIntoEmptyOutput ==
    /\ pc = "done"
    /\ run = 1
    /\ output_path # directory_path
    /\ DOMAIN before[output_path] = {}

\* C1: for every code the registry answers with the fixed table: CUI ->
\* ("CUI", (80,43,133)), S -> ("SECRET", (200,16,46)), U -> ("UNCLASSIFIED",
\* (0,122,51)), and None for both lookups on any other code, lower-case
\* variants included.
C1_RegistryTable ==
    last.drawn =>
        /\ last.classification = CUI =>
              last.label = Some("CUI") /\ last.fill = <<80, 43, 133>>
        /\ last.classification = S_ =>
              last.label = Some("SECRET") /\ last.fill = <<200, 16, 46>>
        /\ last.classification = U_ =>
              last.label = Some("UNCLASSIFIED") /\ last.fill = <<0, 122, 51>>
        /\ last.classification \notin Known =>
              last.label = None /\ last.fill = None

C1_Witness ==
    /\ last.drawn
    /\ last.classification = <<"c", "u", "i">>
    /\ last.label = None
    /\ last.fill = None

\* C2 (as claimed): after a run into an initially empty output directory the
\* output directory holds exactly as many files as the input directory has
\* files with an allow-listed extension.
C2_Original ==
    FirstRunIntoEmptyOutput =>
        Cardinality(DOMAIN fs[output_path]) =
            Cardinality({n \in DOMAIN before[directory_path] :
                            /\ HasAllowedExt(n)
                            /\ before[directory_path][n].kind # "dir"})

\* C2 (amended): after a run into an initially empty output directory the
\* output directory holds exactly one file per allow-listed input that is a
\* readable image, named after it, when the classification is CUI, S or U,
\* and no file at all otherwise; entries with other extensions give none.
C2_OutputPerProcessedInput ==
    FirstRunIntoEmptyOutput =>
        LET good == {n \in DOMAIN before[directory_path] :
                        /\ HasAllowedExt(n)
                        /\ before[directory_path][n].kind = "image"
                        /\ classification \in Known}
        IN  /\ DOMAIN fs[output_path] = {Prefixed(classification, n) : n \in good}
            /\ Cardinality(DOMAIN fs[output_path]) = Cardinality(good)
            /\ \A n \in DOMAIN fs[output_path] : fs[output_path][n].kind = "image"

C2_Witness ==
    /\ FirstRunIntoEmptyOutput
    /\ DOMAIN before[directory_path] = {a_jpg, b_PNG}
    /\ before[directory_path][a_jpg].kind = "corrupt"
    /\ DOMAIN fs[output_path] = {Prefixed(S_, b_PNG)}

\* C3: every file handed to save_image_with_overlay gets the output path
\* outputDir / ("(" + c + ") " + originalFileName); distinct input names get
\* distinct output paths and the output name ends with the input name, so it
\* keeps the input's extension verbatim.
C3_OutputPath ==
    /\ \A c \in calls :
          /\ c[2] = [dir |-> output_path, name |-> Prefixed(classification, c[1])]
          /\ Len(c[2].name) >= Len(c[1])
          /\ SubSeq(c[2].name, Len(c[2].name) - Len(c[1]) + 1, Len(c[2].name)) = c[1]
    /\ \A c1, c2 \in calls : c1[1] # c2[1] => c1[2] # c2[2]
    /\ \A p \in written : \E c \in calls : c[2] = p

C3_Witness ==
    /\ pc = "done"
    /\ Cardinality(calls) >= 2
    /\ \E c \in calls : c[1] = b_PNG /\ c[2] \in written

\* C4 (as claimed): a written output is w + 2t wide and h + 2b + 2t high, b
\* being the band height the bands are drawn with, the same b as the one used
\* to allocate the canvas and to offset the pasted source.
C4_Original ==
    last.outcome = "saved" =>
        LET out == fs[last.new_path.dir][last.new_path.name]
            b == last.draw_banner_height
            t == last.border_thickness
        IN  /\ out.width = last.width + 2 * t
            /\ out.height = last.height + 2 * b + 2 * t
            /\ b = last.banner_height
            /\ b = last.paste_top

\* C5 (as claimed): every non-text pixel of the rows allocated above the
\* pasted source, border columns excluded, has the classification's colour.
C5_Original ==
    (last.outcome = "saved" /\ last.classification \in Known) =>
        LET out == fs[last.new_path.dir][last.new_path.name]
            t == last.border_thickness
            color == IF last.classification = CUI THEN <<80, 43, 133>>
                     ELSE IF last.classification = S_ THEN <<200, 16, 46>>
                     ELSE <<0, 122, 51>>
        IN  \A y \in 0..(last.banner_height - 1), x \in 0..(last.width - 1) :
                getpixel(out, t + x, t + y) # TextPx =>
                    getpixel(out, t + x, t + y) = color

\* C6 (as claimed): the band thickness draw_overlay paints equals the band
\* height save_image_with_overlay allocates and pastes at.
C6_Original ==
    last.drawn =>
        /\ last.draw_banner_height = last.banner_height
        /\ last.band_top = <<0, last.banner_height>>
        /\ last.band_bottom = <<last.new_height - last.banner_height, last.new_height>>
        /\ last.paste_top = last.banner_height

\* C7: whatever subset of the enumerated files fails inside
\* save_image_with_overlay, add_overlay_to_dir never raises, passes every
\* enumerated file to save_image_with_overlay exactly once, and on return
\* every file that could be processed has its output in place.
C7_FailuresAreIsolated ==
    /\ pc # "raised"
    /\ pc = "loop" => ncalls + Cardinality(pending) = Cardinality(image_files)
    /\ pc \in {"loop", "done"} =>
          /\ {c[1] : c \in calls} = image_files \ pending
          /\ Cardinality(calls) = ncalls
          /\ saved \cup failed = image_files \ pending
          /\ saved \cap failed = {}
    /\ pc = "done" =>
          /\ ncalls = Cardinality(image_files)
          /\ \A n \in image_files :
                LET target == Prefixed(classification, n)
                    blocked == /\ target \in DOMAIN before[output_path]
                               /\ before[output_path][target].kind = "dir"
                IN  (/\ before[directory_path][n].kind = "image"
                     /\ classification \in Known
                     /\ ~blocked)
                    => /\ target \in DOMAIN fs[output_path]
                       /\ fs[output_path][target].kind = "image"
                       /\ [dir |-> output_path, name |-> target] \in written

C7_Witness ==
    /\ pc = "done"
    /\ failed # {}
    /\ saved # {}
    /\ ncalls = Cardinality(image_files)

\* C8 (as claimed): a second run with the same arguments leaves the same set
\* of names in the output directory as the first run, each output with the
\* same dimensions, also when the output directory is the input directory.
C8_Original ==
    (pc = "done" /\ run = 2) =>
        /\ DOMAIN fs[output_path] = DOMAIN after1
        /\ \A n \in DOMAIN after1 :
              after1[n].kind = "image" =>
                  /\ fs[output_path][n].kind = "image"
                  /\ fs[output_path][n].width = after1[n].width
                  /\ fs[output_path][n].height = after1[n].height

\* C9 (as claimed): no path written during a run is the path of a file the
\* run enumerated as a source, so every enumerated source keeps its content.
C9_Original ==
    pc \in {"loop", "done"} =>
        /\ \A p \in written : ~(p.dir = directory_path /\ p.name \in image_files)
        /\ \A n \in image_files :
              fs[directory_path][n] = before[directory_path][n]

\* C10 (as claimed): the labels are drawn centred, the top one at
\* ((W - tw) / 2, (B - th) / 2) and the bottom one at
\* ((W - tw) / 2, (H - B) + (B - th) / 2), so that a label that fits lies
\* inside the canvas horizontally and inside its band vertically.
C10_Original ==
    (last.drawn /\ last.label # None) =>
        LET W == last.width
            H == last.new_height
            B == last.draw_banner_height
            tw == last.bbox[3] - last.bbox[1]
            th == last.bbox[4] - last.bbox[2]
            top == last.text_position_top
            bottom == last.text_position_bottom
        IN  /\ top = <<(W - tw) \div 2, (B - th) \div 2>>
            /\ bottom = <<(W - tw) \div 2, (H - B) + (B - th) \div 2>>
            /\ (tw <= W /\ th <= B) =>
                  /\ 0 <= top[1] + last.bbox[1]
                  /\ top[1] + last.bbox[3] <= W
                  /\ 0 <= top[2] + last.bbox[2]
                  /\ top[2] + last.bbox[4] <= B
                  /\ H - B <= bottom[2] + last.bbox[2]
                  /\ bottom[2] + last.bbox[4] <= H
====
